---- MODULE Spec2Model ----
(***************************************************************************)
(* Model of create_dep_graph.py: the text parser (read_deps,               *)
(* extract_node_info, read_comment), the graph builder (graph_from_deps),  *)
(* the state classifier (set_node_info) and the presenters of __main__.    *)
(*                                                                         *)
(* A Python str is a sequence of one-character strings.  Python indices    *)
(* are kept 0-based: lines[i] of the source is lines[i + 1] here.          *)
(***************************************************************************)
EXTENDS Integers, Sequences, FiniteSets, TLC

VARIABLES
    pc,          \* position of the run in __main__ / the exception that ended it
    file,        \* content of deps.txt, one entry per line, without line ends
    lines,       \* read_deps / extract_node_info: the lower-cased lines
    i,           \* extract_node_info: the scan index
    node_info,   \* extract_node_info: node name -> [name, complete, comment]
    consumed,    \* history: indices of the lines read by read_comment
    deps,        \* the edge expressions returned by read_deps
    G,           \* the DiGraph: [nodes, edges, attr]
    output       \* the lines printed so far

vars == <<pc, file, lines, i, node_info, consumed, deps, G, output>>

(***************************************************************************)
(* Bounds of the model.                                                    *)
(***************************************************************************)
MaxLines == 4

(***************************************************************************)
(* The lines a deps.txt is made of in this model.                          *)
(***************************************************************************)
LineChoices ==
    { <<"-"," ","a"," ","-",">"," ","b">>,                 \* edge line
      <<"-"," ","b"," ","-",">"," ","A">>,                 \* edge line closing a cycle, upper case
      <<"-"," ","a"," ","-",">"," ","a">>,                 \* self-loop
      <<"-"," ","a","w","a","i","t","_","x"," ","-",">"," ","y">>,           \* edge line from an "await" node
      <<"-"," ","[","c","o","m","p","l","e","t","e","]"," ","a">>,           \* node declaration line
      <<"-"," ","[","c","o","m","p","l","e","t","e","]"," ","a","w","a","i","t","_","x">>,     \* node declaration line
      <<"\"","n","o","t","e">>,                    \* comment-start line
      <<"-"," ","b","\"">>,                     \* comment-end line that begins with the marker
      <<"-"," ","a"," ","-",">"," ","b"," ","-",">"," ","c">> }           \* edge expression with two "->"

Files == UNION { [1..n -> LineChoices] : n \in 0..MaxLines }

(***************************************************************************)
(* str methods.                                                            *)
(***************************************************************************)
Whitespace == {" ", "\n"}

MinOf(S) == CHOOSE x \in S : \A y \in S : x <= y

MaxOf(S) == CHOOSE x \in S : \A y \in S : x >= y

StartsWith(s, p) == Len(s) >= Len(p) /\ SubSeq(s, 1, Len(p)) = p

EndsWith(s, p) == Len(s) >= Len(p) /\ SubSeq(s, Len(s) - Len(p) + 1, Len(s)) = p

\* the 1-based positions at which p occurs in s
Occurrences(s, p) == { k \in 1..(Len(s) - Len(p) + 1) : SubSeq(s, k, k + Len(p) - 1) = p }

Contains(s, p) == Occurrences(s, p) # {}

Strip(s) ==
    LET keep == { k \in 1..Len(s) : s[k] \notin Whitespace }
    IN  IF keep = {} THEN <<>> ELSE SubSeq(s, MinOf(keep), MaxOf(keep))

\* s.replace(c, "") for a one-character c
Remove(s, c) == SelectSeq(s, LAMBDA x : x # c)

LowerChar(c) == IF c = "A" THEN "a" ELSE c

Lower(s) == [k \in 1..Len(s) |-> LowerChar(s[k])]

\* re.sub("^p", "", s) for a literal p
SubPrefix(p, s) == IF StartsWith(s, p) THEN SubSeq(s, Len(p) + 1, Len(s)) ELSE s

RECURSIVE Split(_, _)
Split(s, sep) ==
    IF ~Contains(s, sep) THEN <<s>>
    ELSE LET k == MinOf(Occurrences(s, sep))
         IN  <<SubSeq(s, 1, k - 1)>> \o Split(SubSeq(s, k + Len(sep), Len(s)), sep)

RECURSIVE Join(_, _)
Join(sep, parts) ==
    IF parts = <<>> THEN <<>>
    ELSE IF Len(parts) = 1 THEN parts[1]
    ELSE parts[1] \o sep \o Join(sep, Tail(parts))

\* textwrap.wrap(text, 30) of a stripped text of at most 30 characters, which
\* every line of LineChoices is: the text is one segment, an empty text none
Wrap(text) == IF text = <<>> THEN <<>> ELSE <<text>>

\* f.readlines(): every line keeps its line end
ReadLines(f) == [k \in 1..Len(f) |-> f[k] \o <<"\n">>]

(***************************************************************************)
(* Functions to aid parsing.                                               *)
(***************************************************************************)
is_edge_line(line) == StartsWith(line, <<"-">>) /\ Contains(line, <<"-",">">>)

is_node_line(line) ==
    /\ StartsWith(line, <<"-">>)
    /\ ~is_edge_line(line)
    /\ ~(Strip(Remove(line, "-")) = <<>>)

is_comment_start_line(line) == StartsWith(Strip(line), <<"\"">>)

is_comment_end_line(line) == EndsWith(Strip(line), <<"\"">>)

get_node_name(line) ==
    LET l1 == Strip(SubPrefix(<<"-">>, line))
    IN  Strip(SubPrefix(<<"[","c","o","m","p","l","e","t","e","]">>, l1))

is_complete_line(line) == Contains(Lower(line), <<"[","c","o","m","p","l","e","t","e","]">>)

\* the loop of read_comment: lines[i] raises IndexError past the end
RECURSIVE read_comment_loop(_, _, _)
read_comment_loop(idx, ls, comment_lines) ==
    IF idx >= Len(ls)
    THEN [error |-> TRUE, comment |-> <<>>, i |-> idx]
    ELSE LET cl == comment_lines \o Wrap(Strip(ls[idx + 1]))
         IN  IF cl = <<>>
             THEN [error |-> TRUE, comment |-> <<>>, i |-> idx]
             ELSE IF EndsWith(cl[Len(cl)], <<"\"">>)
             THEN [error |-> FALSE,
                   comment |-> Remove(Join(<<"\\","l">>, cl), "\"") \o <<"\\","l">>,
                   i |-> idx]
             ELSE read_comment_loop(idx + 1, ls, cl)

read_comment(idx, ls) == read_comment_loop(idx, ls, <<>>)

\* variant: the assertion is left out
DuplicateNode_Unchecked(node_name, info) == FALSE

\* the assertion of extract_node_info fails
DuplicateNode(node_name, info) == node_name \in DOMAIN info

NodeEntry(node_name, complete, comment) ==
    [name |-> node_name, complete |-> complete, comment |-> comment]

(***************************************************************************)
(* read_deps after extract_node_info: the edge expressions.                *)
(***************************************************************************)
DepsLines(ls) ==
    LET marked == SelectSeq(ls, LAMBDA l : StartsWith(l, <<"-">>))
        stripped == [k \in 1..Len(marked) |-> Strip(SubPrefix(<<"-">>, marked[k]))]
    IN  SelectSeq(stripped, LAMBDA l : Contains(l, <<"-",">">>))

(***************************************************************************)
(* The DiGraph: nodes and edges in insertion order, attr the node          *)
(* attribute dictionaries.                                                 *)
(***************************************************************************)
EmptyGraph == [nodes |-> <<>>, edges |-> <<>>, attr |-> <<>>]

InSeq(x, s) == \E k \in 1..Len(s) : s[k] = x

\* G.add_nodes_from([n], complete=False)
AddNode(g, n) ==
    [nodes |-> IF InSeq(n, g.nodes) THEN g.nodes ELSE Append(g.nodes, n),
     edges |-> g.edges,
     attr  |-> IF n \in DOMAIN g.attr
               THEN [g.attr EXCEPT ![n] = [@ EXCEPT !.complete = FALSE]]
               ELSE (n :> [complete |-> FALSE]) @@ g.attr]

\* G.add_edge(parent, child)
AddEdge(g, parent, child) ==
    [g EXCEPT !.edges = IF InSeq(<<parent, child>>, @) THEN @ ELSE Append(@, <<parent, child>>)]

\* the unpacking "parent, child = dep.split('->')" raises ValueError
UnpackFails(dep) == Len(Split(dep, <<"-",">">>)) # 2

RECURSIVE graph_from_deps_loop(_, _)
graph_from_deps_loop(ds, g) ==
    IF ds = <<>> THEN [error |-> FALSE, G |-> g]
    ELSE IF UnpackFails(ds[1]) THEN [error |-> TRUE, G |-> g]
    ELSE LET parts == Split(ds[1], <<"-",">">>)
             parent == Strip(parts[1])
             child == Strip(parts[2])
         IN  graph_from_deps_loop(Tail(ds), AddEdge(AddNode(AddNode(g, parent), child), parent, child))

graph_from_deps(ds) == graph_from_deps_loop(ds, EmptyGraph)

\* G.predecessors(node)
Predecessors(g, node) == { g.edges[k][1] : k \in { j \in 1..Len(g.edges) : g.edges[j][2] = node } }

(***************************************************************************)
(* set_node_info.                                                          *)
(***************************************************************************)
\* variant: the declared metadata is not looked up
Overlay_DefaultsOnly(info, g) ==
    [n \in DOMAIN g.attr |-> [complete |-> FALSE, comment |-> <<>>]]

\* first loop: complete and comment of every node
Overlay(info, g) ==
    [n \in DOMAIN g.attr |->
        IF n \in DOMAIN info
        THEN [complete |-> info[n].complete, comment |-> info[n].comment]
        ELSE [complete |-> FALSE, comment |-> <<>>]]

\* the value the variable "complete" has in the second loop: the first
\* loop's last assignment to it
CompleteInSecondLoop(g, attr1, node) == attr1[g.nodes[Len(g.nodes)]].complete

\* variant: a node is not counted among its own parents
AllParentsComplete_NoSelf(g, attr1, node) ==
    \A parent \in Predecessors(g, node) \ {node} : attr1[parent].complete

AllParentsComplete(g, attr1, node) == \A parent \in Predecessors(g, node) : attr1[parent].complete

IsNext(complete, all_parents_complete) == (~complete) /\ all_parents_complete

\* variant: the name is not tested
IsWaiting_AnyName(is_next, node) == is_next

\* variant: next is not tested
IsWaiting_PrefixOnly(is_next, node) == StartsWith(node, <<"a","w","a","i","t">>)

IsWaiting(is_next, node) == is_next /\ StartsWith(node, <<"a","w","a","i","t">>)

set_node_info(info, g) ==
    LET attr1 == Overlay(info, g)
    IN  [g EXCEPT !.attr =
            [n \in DOMAIN g.attr |->
                LET is_next == IsNext(CompleteInSecondLoop(g, attr1, n), AllParentsComplete(g, attr1, n))
                IN  [complete |-> attr1[n].complete,
                     comment  |-> attr1[n].comment,
                     waiting  |-> IsWaiting(is_next, n),
                     next     |-> is_next]]]

(***************************************************************************)
(* The presenters.  A printed line is a str; output is the list of them.   *)
(***************************************************************************)
\* docopt(__doc__): any combination of the three flags
Arguments == [koi_list : BOOLEAN, list_next : BOOLEAN, list_awaiting : BOOLEAN]

\* print(f" - {node}") for every node of a sequence
ListLines(ns) == [k \in 1..Len(ns) |-> <<" ","-"," ">> \o ns[k]]

\* G.successors(node), in the order the edges were added
Successors(g, node) ==
    LET out == SelectSeq(g.edges, LAMBDA e : e[1] = node)
    IN  [k \in 1..Len(out) |-> out[k][2]]

KoiTest(g, n) == g.attr[n].next

TodoTest(g, n) == g.attr[n].next /\ ~g.attr[n].waiting

AwaitingTest(g, n) == g.attr[n].next /\ g.attr[n].waiting

print_graph_header == << <<"d","i","g","r","a","p","h"," ","G"," ","{">>, <<"r","a","n","k","d","i","r","=","\"","L","R","\"">>, <<>> >>

print_graph_footer == << <<"}">> >>

print_dep(dep_str) ==
    IF Len(Split(dep_str, <<"-",">">>)) # 2 THEN <<>>
    ELSE << <<" "," "," ","\"">> \o Strip(Split(dep_str, <<"-",">">>)[1]) \o <<"\""," ","-",">"," ","\"">>
            \o Strip(Split(dep_str, <<"-",">">>)[2]) \o <<"\"">> >>

get_node_fill_color(node, g) ==
    IF g.attr[node].complete THEN <<"l","i","g","h","t","g","r","e","y">>
    ELSE IF g.attr[node].waiting THEN <<"l","i","g","h","t","b","l","u","e">>
    ELSE IF g.attr[node].next THEN <<"g","r","e","e","n">>
    ELSE <<"w","h","i","t","e">>

print_node(node, g) ==
    LET label == node \o <<"\\","l","\\","l">> \o g.attr[node].comment
    IN  << <<" "," "," "," ","\"">> \o node \o <<"\""," ","[","l","a","b","e","l","=","\"">> \o label \o <<"\"",",","s","t","y","l","e","=","f","i","l","l","e","d",",","f","i","l","l","c","o","l","o","r","=">>
           \o get_node_fill_color(node, g) \o <<"]">> >>

RECURSIVE PrintDeps(_)
PrintDeps(ds) == IF ds = <<>> THEN <<>> ELSE print_dep(ds[1]) \o PrintDeps(Tail(ds))

RECURSIVE PrintNodes(_, _)
PrintNodes(ns, g) == IF ns = <<>> THEN <<>> ELSE print_node(ns[1], g) \o PrintNodes(Tail(ns), g)

(***************************************************************************)
(* The run.                                                                *)
(***************************************************************************)
Init ==
    /\ pc = "read_deps"
    /\ file \in Files
    /\ lines = <<>>
    /\ i = 0
    /\ node_info = <<>>
    /\ consumed = {}
    /\ deps = <<>>
    /\ G = EmptyGraph
    /\ output = <<>>

\* read_deps up to the call of extract_node_info, and its first statements
ReadFile ==
    /\ pc = "read_deps"
    /\ lines' = [k \in 1..Len(file) |-> Lower(ReadLines(file)[k])]
    /\ i' = 0
    /\ node_info' = <<>>
    /\ pc' = "extract_node_info"
    /\ UNCHANGED <<file, consumed, deps, G, output>>

\* one iteration of the while loop of extract_node_info
ExtractStep ==
    /\ pc = "extract_node_info"
    /\ i < Len(lines)
    /\ LET line == lines[i + 1]
           node_name == get_node_name(line)
           complete == is_complete_line(line)
           i1 == i + 1
           rc == read_comment(i1, lines)
       IN  IF ~is_node_line(line)
           THEN /\ i' = i + 1
                /\ UNCHANGED <<pc, node_info, consumed>>
           ELSE IF DuplicateNode(node_name, node_info)
           THEN /\ pc' = "AssertionError"
                /\ UNCHANGED <<i, node_info, consumed>>
           ELSE IF i1 < Len(lines) /\ is_comment_start_line(lines[i1 + 1])
           THEN IF rc.error
                THEN /\ pc' = "IndexError"
                     /\ consumed' = consumed \cup (i1..(Len(lines) - 1))
                     /\ UNCHANGED <<i, node_info>>
                ELSE /\ node_info' = (node_name :> NodeEntry(node_name, complete, rc.comment)) @@ node_info
                     /\ i' = rc.i
                     /\ consumed' = consumed \cup (i1..rc.i)
                     /\ UNCHANGED pc
           ELSE /\ node_info' = (node_name :> NodeEntry(node_name, complete, <<>>)) @@ node_info
                /\ i' = i1
                /\ UNCHANGED <<pc, consumed>>
    /\ UNCHANGED <<file, lines, deps, G, output>>

\* the return of extract_node_info and the rest of read_deps
ReadDepsReturn ==
    /\ pc = "extract_node_info"
    /\ i >= Len(lines)
    /\ deps' = DepsLines(lines)
    /\ pc' = "graph_from_deps"
    /\ UNCHANGED <<file, lines, i, node_info, consumed, G, output>>

GraphFromDeps ==
    /\ pc = "graph_from_deps"
    /\ LET r == graph_from_deps(deps)
       IN  IF r.error
           THEN pc' = "ValueError" /\ UNCHANGED G
           ELSE pc' = "set_node_info" /\ G' = r.G
    /\ UNCHANGED <<file, lines, i, node_info, consumed, deps, output>>

SetNodeInfo ==
    /\ pc = "set_node_info"
    /\ G' = set_node_info(node_info, G)
    /\ pc' = "present"
    /\ UNCHANGED <<file, lines, i, node_info, consumed, deps, output>>

\* print_koi_todo_list: G.successors raises NetworkXError when "koi" is no node
PrintKoiTodoList ==
    /\ pc = "present"
    /\ \E args \in Arguments : args.koi_list
    /\ IF InSeq(<<"k","o","i">>, G.nodes)
       THEN /\ output' = output \o <<<<"K","o","i"," ","T","O","D","O"," ","l","i","s","t",":">>>> \o ListLines(SelectSeq(Successors(G, <<"k","o","i">>), LAMBDA n : KoiTest(G, n)))
            /\ pc' = "done"
       ELSE /\ output' = output \o <<<<"K","o","i"," ","T","O","D","O"," ","l","i","s","t",":">>>>
            /\ pc' = "NetworkXError"
    /\ UNCHANGED <<file, lines, i, node_info, consumed, deps, G>>

PrintTodoList ==
    /\ pc = "present"
    /\ \E args \in Arguments : ~args.koi_list /\ args.list_next
    /\ output' = output \o <<<<"T","O","D","O"," ","l","i","s","t",":">>>> \o ListLines(SelectSeq(G.nodes, LAMBDA n : TodoTest(G, n)))
    /\ pc' = "done"
    /\ UNCHANGED <<file, lines, i, node_info, consumed, deps, G>>

PrintAwaitingList ==
    /\ pc = "present"
    /\ \E args \in Arguments : ~args.koi_list /\ ~args.list_next /\ args.list_awaiting
    /\ output' = output \o <<<<"C","u","r","r","e","n","t","l","y"," ","a","w","a","i","t","i","n","g",":">>>> \o ListLines(SelectSeq(G.nodes, LAMBDA n : AwaitingTest(G, n)))
    /\ pc' = "done"
    /\ UNCHANGED <<file, lines, i, node_info, consumed, deps, G>>

PrintGraph ==
    /\ pc = "present"
    /\ \E args \in Arguments : ~args.koi_list /\ ~args.list_next /\ ~args.list_awaiting
    /\ output' = output \o print_graph_header \o PrintDeps(deps) \o PrintNodes(G.nodes, G)
                        \o print_graph_footer
    /\ pc' = "done"
    /\ UNCHANGED <<file, lines, i, node_info, consumed, deps, G>>

Next ==
    \/ ReadFile
    \/ ExtractStep
    \/ ReadDepsReturn
    \/ GraphFromDeps
    \/ SetNodeInfo
    \/ PrintKoiTodoList
    \/ PrintTodoList
    \/ PrintAwaitingList
    \/ PrintGraph

Spec == Init /\ [][Next]_vars

(***************************************************************************)
(* Properties.                                                             *)
(***************************************************************************)
\* set_node_info has run
Classified == pc \in {"present", "done", "NetworkXError"}

\* the lines as extract_node_info sees them
LoweredLines == [k \in 1..Len(file) |-> Lower(ReadLines(file)[k])]

Nodes == { G.nodes[k] : k \in 1..Len(G.nodes) }

Edges == { G.edges[k] : k \in 1..Len(G.edges) }

DeclaredComplete(n) == n \in DOMAIN node_info /\ node_info[n].complete

\* C1: after graph_from_deps and set_node_info, a node is next iff it is not
\* complete and every direct predecessor is complete
C1_NextIffReady ==
    Classified =>
        \A n \in Nodes :
            G.attr[n].next <=>
                (~G.attr[n].complete /\ \A p \in Predecessors(G, n) : G.attr[p].complete)

\* C2: whatever the order of the edge expressions, every node gets the same
\* complete, next and waiting
Reordered(ds, perm) == [k \in 1..Len(ds) |-> ds[perm[k]]]

C2_OrderIndependent ==
    Classified =>
        \A perm \in Permutations(1..Len(deps)) :
            LET g2 == set_node_info(node_info, graph_from_deps(Reordered(deps, perm)).G)
            IN  /\ DOMAIN g2.attr = DOMAIN G.attr
                /\ \A n \in DOMAIN G.attr :
                      /\ g2.attr[n].complete = G.attr[n].complete
                      /\ g2.attr[n].next = G.attr[n].next
                      /\ g2.attr[n].waiting = G.attr[n].waiting

AwaitScenario == << <<"-"," ","a","w","a","i","t","_","x"," ","-",">"," ","y">>, <<"-"," ","[","c","o","m","p","l","e","t","e","]"," ","a","w","a","i","t","_","x">> >>

\* C3, as claimed: the input "- await_x -> y", "- [complete] await_x"
\* classifies y as next and waiting
C3_YNextAndWaiting ==
    (file = AwaitScenario /\ Classified) =>
        /\ <<"y">> \in Nodes
        /\ G.attr[<<"y">>].next
        /\ G.attr[<<"y">>].waiting

\* C3, amended: the input "- await_x -> y", "- [complete] await_x"
\* classifies y as next and not waiting
C3_YNextNotWaiting ==
    (file = AwaitScenario /\ Classified) =>
        /\ <<"y">> \in Nodes
        /\ G.attr[<<"y">>].next
        /\ ~G.attr[<<"y">>].waiting

C3_Witness == file = AwaitScenario /\ pc = "present" /\ G.attr[<<"a","w","a","i","t","_","x">>].complete

\* C4: a node is waiting iff it is next and its name starts with "await";
\* hence waiting implies next
C4_WaitingIffNextAndAwait ==
    Classified =>
        \A n \in Nodes :
            /\ G.attr[n].waiting <=> (G.attr[n].next /\ StartsWith(n, <<"a","w","a","i","t">>))
            /\ G.attr[n].waiting => G.attr[n].next

C4_Witness ==
    /\ Classified
    /\ \E n \in Nodes : G.attr[n].waiting
    /\ \E n \in Nodes : G.attr[n].next /\ ~G.attr[n].waiting

\* a '-' line with a number of "->" other than one
ArrowCount(l) == Cardinality(Occurrences(l, <<"-",">">>))

HasMalformedEdgeLine ==
    \E k \in 1..Len(LoweredLines) :
        StartsWith(LoweredLines[k], <<"-">>) /\ ArrowCount(LoweredLines[k]) # 1

WellFormedEdges ==
    { <<Strip(Split(Strip(SubPrefix(<<"-">>, l)), <<"-",">">>)[1]), Strip(Split(Strip(SubPrefix(<<"-">>, l)), <<"-",">">>)[2])>> :
        l \in { LoweredLines[k] : k \in { j \in 1..Len(LoweredLines) :
                    StartsWith(LoweredLines[j], <<"-">>) /\ ArrowCount(LoweredLines[j]) = 1 } } }

\* C5: a '-' line without "->" or with more than one never aborts the run
\* with the graph builder's error, it adds no edge, and the edges of the
\* well-formed edge lines are all inserted
C5_MalformedLinesSkipped ==
    HasMalformedEdgeLine =>
        /\ pc # "ValueError"
        /\ Classified => Edges = WellFormedEdges

\* two node declaration lines with the same node name, at 1-based j < k
SameNameDeclarations(j, k) ==
    /\ j < k
    /\ is_node_line(LoweredLines[j])
    /\ is_node_line(LoweredLines[k])
    /\ get_node_name(LoweredLines[j]) = get_node_name(LoweredLines[k])

\* C6, as claimed: an input with two node declaration lines of the same name
\* ends in the duplicate-node error before the graph is built, nothing
\* printed (runs ended by read_comment's IndexError are left aside)
C6_DuplicateLinesFatal ==
    ((\E j, k \in 1..Len(file) : SameNameDeclarations(j, k)) /\ pc # "IndexError") =>
        /\ pc \in {"read_deps", "extract_node_info", "AssertionError"}
        /\ output = <<>>

\* the 1-based positions of the node declaration lines that read_comment
\* has not read as comment text
ScannedDeclarations ==
    { j \in 1..Len(lines) : (j - 1) \notin consumed /\ is_node_line(lines[j]) }

ScannedDuplicates ==
    LET D == ScannedDeclarations
    IN  Cardinality({ get_node_name(lines[j]) : j \in D }) < Cardinality(D)

\* C6, amended: when two node declaration lines of the same name were both
\* not read by read_comment as comment text, a run that has left the scan of
\* extract_node_info has ended in the duplicate-node error: no graph was
\* built and nothing was printed
C6_ScannedDuplicatesFatal ==
    (pc \notin {"read_deps", "extract_node_info"} /\ ScannedDuplicates) =>
        /\ pc = "AssertionError"
        /\ G = EmptyGraph
        /\ output = <<>>

C6_Witness ==
    /\ pc = "AssertionError"
    /\ consumed # {}
    /\ ScannedDuplicates

\* the nodes reached from a set of nodes along a set of edges
RECURSIVE ReachFrom(_, _)
ReachFrom(S, E) ==
    LET T == S \cup { e[2] : e \in { x \in E : x[1] \in S } }
    IN  IF T = S THEN S ELSE ReachFrom(T, E)

\* n lies on a directed cycle none of whose nodes is declared complete
OnOpenCycle(n) ==
    LET E == { e \in Edges : ~DeclaredComplete(e[1]) /\ ~DeclaredComplete(e[2]) }
    IN  n \in ReachFrom({ e[2] : e \in { x \in E : x[1] = n } }, E)

\* C7: every node of a directed cycle (a self-loop included) on which no
\* node is declared complete has next = false
C7_CycleNeverNext ==
    Classified => \A n \in Nodes : OnOpenCycle(n) => ~G.attr[n].next

C7_Witness ==
    /\ Classified
    /\ \E n \in Nodes : OnOpenCycle(n) /\ <<n, n>> \notin Edges
    /\ \E n \in Nodes : G.attr[n].next

\* the names on the two sides of the "->" of the edge expressions
EndpointNames ==
    UNION { LET parts == Split(deps[k], <<"-",">">>) IN { Strip(parts[1]), Strip(parts[2]) } : k \in 1..Len(deps) }

\* a line the presenters print for node n
IsNodeOutputLine(l, n) == l = <<" ","-"," ">> \o n \/ StartsWith(l, <<" "," "," "," ","\"">> \o n \o <<"\"">>)

\* C8: the nodes are exactly the endpoints of the edge expressions; an
\* undeclared endpoint is not complete and has no comment, a declared one
\* takes both from its declaration, both get next and waiting; a declared
\* name that is no endpoint is no node and is not printed
C8_NodesAreEndpoints ==
    Classified =>
        LET endpoints == EndpointNames
        IN  /\ Nodes = endpoints
            /\ DOMAIN G.attr = endpoints
            /\ \A n \in endpoints :
                  /\ DOMAIN G.attr[n] = {"complete", "comment", "waiting", "next"}
                  /\ G.attr[n].next \in BOOLEAN /\ G.attr[n].waiting \in BOOLEAN
                  /\ IF n \in DOMAIN node_info
                     THEN /\ G.attr[n].complete = node_info[n].complete
                          /\ G.attr[n].comment = node_info[n].comment
                     ELSE /\ G.attr[n].complete = FALSE
                          /\ G.attr[n].comment = <<>>
            /\ \A n \in DOMAIN node_info \ endpoints :
                  /\ n \notin Nodes
                  /\ \A k \in 1..Len(output) : ~IsNodeOutputLine(output[k], n)

C8_Witness ==
    /\ pc = "done"
    /\ \E n \in Nodes : n \in DOMAIN node_info /\ G.attr[n].complete
    /\ \E n \in Nodes : n \in DOMAIN node_info /\ G.attr[n].comment # <<>>
    /\ \E n \in Nodes : n \notin DOMAIN node_info
    /\ DOMAIN node_info \ EndpointNames # {}

\* a node declaration line is followed at once by a comment-start line and
\* no line from there to the end of the input ends with a quote character
UnterminatedComment ==
    \E k \in 1..(Len(LoweredLines) - 1) :
        /\ is_node_line(LoweredLines[k])
        /\ is_comment_start_line(LoweredLines[k + 1])
        /\ \A m \in (k + 1)..Len(LoweredLines) : ~is_comment_end_line(LoweredLines[m])

\* C9: with an unterminated comment block extract_node_info does not fail
\* in read_comment
C9_UnterminatedTolerated == UnterminatedComment => pc # "IndexError"

\* C10: every line the scan of extract_node_info examines, and so every
\* line it registers as a node declaration, is a line read_comment has not
\* read: after a comment block the scan index is past the block's last line
C10_CommentLinesNotRegistered ==
    [][ (pc = "extract_node_info" /\ i < Len(lines) /\ i' # i) => i \notin consumed ]_vars

====
